---- MODULE Spec2Model ----
(***************************************************************************)
(* State-machine model of the maxstorage_ultimate integration:             *)
(*   client.py       MaxStorageClient (login, session expiry, identity     *)
(*                   scraping, live-data fetch)                            *)
(*   coordinator.py  MaxStorageDataUpdateCoordinator (poll, snapshot)      *)
(*   __init__.py     async_setup_entry (client setup, first refresh,       *)
(*                   platform forwarding)                                  *)
(* One config entry, one client, one coordinator.  Every await on the      *)
(* network is a point where the device answers (DeviceAnswers) and the     *)
(* clock may advance (Advance); the code between two awaits is one action. *)
(***************************************************************************)
EXTENDS Integers, Sequences, FiniteSets, TLC

(***************************************************************************)
(* Bounds of the model.                                                    *)
(***************************************************************************)
\* How many times the wall clock is advanced in one behaviour.
MaxAdvances == 3

\* Times the clock is advanced in the specification with fairness: two
\* advances let a session expire.
MaxLiveAdvances == 2

(***************************************************************************)
(* Program constants.                                                      *)
(***************************************************************************)
\* client.py:36  self.TOKEN_EXPIRY = 600  # 10 minutes
TOKEN_EXPIRY == 600

\* client.py:35  self.last_auth_time = None  (no timestamp recorded)
NoAuthTime == -1

\* client.py:34  self.mac = None
NoMac == "None"

\* __init__.py:13  PLATFORMS
PLATFORMS == {"sensor", "binary_sensor"}

\* Steps of the wall clock: one second, and one second short of the expiry
\* window, so that ages 599, 600 and 601 all occur.
Deltas == {1, TOKEN_EXPIRY - 1}

(***************************************************************************)
(* Python values.                                                          *)
(***************************************************************************)
PyNone == [tag |-> "None"]

PyDict(m) == [tag |-> "dict", items |-> m]

EmptyDict == [k \in {} |-> ""]

\* The result of a call: a returned value or a raised exception class.
Return(v) == [kind |-> "return", exc |-> "none", value |-> v]

Raise(e) == [kind |-> "raise", exc |-> e, value |-> PyNone]

Pending == [kind |-> "pending", exc |-> "none", value |-> PyNone]

NoCall == [kind |-> "nocall", exc |-> "none", value |-> PyNone]

(***************************************************************************)
(* The login page.  A body is the list of <b>/<div> elements that          *)
(* soup.find_all(["b", "div"]) yields; an element carries its raw text and *)
(* what follows it: sib = "text" (the next sibling is a text node, layout  *)
(* of firmware 3.4.0), "elem" (the next sibling element holds no <b>,      *)
(* layout of 3.4.3), "elem_b" (the next sibling element holds a <b>),      *)
(* "none" (nothing follows).  raw is the text of what follows.             *)
(***************************************************************************)
El(text, sib, raw) == [text |-> text, sib |-> sib, raw |-> raw]

\* client.py:110  element.get_text().strip().replace(":", "")
KeyText(text) ==
    CASE text = "Anlagenname:" -> "Anlagenname"
      [] text = "MasterController-Nummer:" -> "MasterController-Nummer"
      [] text = "Firmware-Version:" -> "Firmware-Version"
      [] text = "Hardware-Version:" -> "Hardware-Version"
      [] text = "Ident:" -> "Ident"
      [] text = " Ident " -> "Ident"
      [] text = "  " -> ""
      [] OTHER -> text

\* client.py:126 next_sibling.strip(), client.py:131 get_text(strip=True)
Strip(raw) ==
    CASE raw = " SMT-0001 " -> "SMT-0001"
      [] raw = " 3.4.0 " -> "3.4.0"
      [] raw = " MC-77 " -> "MC-77"
      [] raw = " 2.1 " -> "2.1"
      [] raw = " Keller " -> "Keller"
      [] raw = " " -> ""
      [] OTHER -> raw

\* client.py:115-121  the keys the scraper recognises
RecognisedKeys ==
    {"Anlagenname", "MasterController-Nummer", "Firmware-Version",
     "Hardware-Version", "Ident"}

\* coordinator.py:40-47  the keys the device record is built from
IdentityKeys ==
    {"Ident", "MasterController-Nummer", "Firmware-Version", "Hardware-Version"}

\* client.py:109-131  the loop body: what one element does to device_info
ReadElement(device_info, element) ==
    LET text == KeyText(element.text)
    IN  IF text # "" /\ text \in RecognisedKeys
        THEN IF element.sib = "text"
             THEN (text :> Strip(element.raw)) @@ device_info
             ELSE IF element.sib = "elem"
                  THEN (text :> Strip(element.raw)) @@ device_info
                  ELSE device_info
        ELSE device_info

RECURSIVE ReadElements(_, _)
ReadElements(device_info, elements) ==
    IF elements = <<>>
    THEN device_info
    ELSE ReadElements(ReadElement(device_info, Head(elements)), Tail(elements))

\* client.py:99-135  _read_device_info: fills self.device_info in place and
\* raises DataParserError when self.device_info is empty afterwards.
_read_device_info(device_info, body) ==
    LET di == ReadElements(device_info, body)
    IN  [device_info |-> di,
         exc |-> IF DOMAIN di = {} THEN "DataParserError" ELSE "none"]

\* Login pages the device (or whatever answers on its address) can serve.
BodyV340 ==
    << El("Anlagenname:", "text", " Keller "),
       El("Ident:", "text", " SMT-0001 "),
       El("MasterController-Nummer:", "text", " MC-77 "),
       El("Firmware-Version:", "text", " 3.4.0 "),
       El("Hardware-Version:", "text", " 2.1 ") >>

BodyV343 ==
    << El("Anlagenname", "elem", "Keller"),
       El("Ident", "elem", "SMT-0001"),
       El("MasterController-Nummer", "elem", "MC-77"),
       El("Firmware-Version", "elem", "3.4.3"),
       El("Hardware-Version", "elem", "2.1") >>

\* Only the identifier can be extracted: the other keys are followed by a
\* sibling that holds a <b>, or by nothing.
BodyPartial ==
    << El(" Ident ", "text", "SMT-0001"),
       El("Firmware-Version", "elem_b", "3.4.3"),
       El("Hardware-Version", "none", "") >>

\* No recognised key at all (a login form, an error page).
BodyNoKeys == << El("Login", "text", "admin"), El("  ", "elem", "x") >>

\* The name is there, the identifier is not.
BodyNameOnly == << El("Anlagenname:", "text", " Keller ") >>

LoginBodies == {BodyV340, BodyV343, BodyPartial, BodyNameOnly, BodyNoKeys}

(***************************************************************************)
(* The data endpoint.  Bodies are texts; json() parses them.               *)
(***************************************************************************)
Snapshot50 == [batterySoC |-> 50]

Snapshot87 == [batterySoC |-> 87, gridPower |-> 120]

\* Snapshots with a relay section: three relays, the second without a name.
SnapshotRelaisA ==
    [batterySoC |-> 50,
     Relais |-> [name |-> <<"Pumpe", "", "Heizstab">>, value |-> <<1, 0, 0>>]]

SnapshotRelaisB ==
    [batterySoC |-> 50,
     Relais |-> [name |-> <<"Pumpe", "", "Heizstab">>, value |-> <<0, 1, 1>>]]

\* client.py:157  response.json(content_type=None)
ParseJson(text) ==
    CASE text = "{\"batterySoC\": 50}" -> [ok |-> TRUE, value |-> PyDict(Snapshot50)]
      [] text = "{\"batterySoC\": 50, \"Relais\": {\"name\": [\"Pumpe\", \"\", \"Heizstab\"], \"value\": [1, 0, 0]}}" ->
             [ok |-> TRUE, value |-> PyDict(SnapshotRelaisA)]
      [] text = "{\"batterySoC\": 50, \"Relais\": {\"name\": [\"Pumpe\", \"\", \"Heizstab\"], \"value\": [0, 1, 1]}}" ->
             [ok |-> TRUE, value |-> PyDict(SnapshotRelaisB)]
      [] text = "{\"batterySoC\": 87, \"gridPower\": 120}" ->
             [ok |-> TRUE, value |-> PyDict(Snapshot87)]
      [] text = "null" -> [ok |-> TRUE, value |-> PyNone]
      [] OTHER -> [ok |-> FALSE, value |-> PyNone]

DataBodies ==
    {"{\"batterySoC\": 50}", "{\"batterySoC\": 87, \"gridPower\": 120}",
     "{\"batterySoC\": 50, \"Relais\": {\"name\": [\"Pumpe\", \"\", \"Heizstab\"], \"value\": [1, 0, 0]}}",
     "{\"batterySoC\": 50, \"Relais\": {\"name\": [\"Pumpe\", \"\", \"Heizstab\"], \"value\": [0, 1, 1]}}",
     "null", "<html>busy</html>"}

(***************************************************************************)
(* What can come back for a request: the connection fails, or an HTTP      *)
(* response with a status and a body arrives.                              *)
(***************************************************************************)
NoResp == [conn |-> "none", status |-> 0]

ConnectError == [conn |-> "error", status |-> 0]

Http(status, body) == [conn |-> "ok", status |-> status, body |-> body]

LoginResponses ==
    {ConnectError}
    \cup {Http(200, b) : b \in LoginBodies}
    \cup {Http(s, BodyNoKeys) : s \in {401, 500}}

DataResponses ==
    {ConnectError}
    \cup {Http(200, t) : t \in DataBodies}
    \cup {Http(s, "{\"batterySoC\": 50}") : s \in {201, 500}}

\* What a device in working order answers: the login page of either
\* firmware, and the live data as JSON.
CorrectLoginResponses == {Http(200, b) : b \in {BodyV340, BodyV343}}

CorrectDataResponses ==
    {Http(200, t) : t \in {u \in DataBodies : /\ ParseJson(u).ok
                                              /\ ParseJson(u).value.tag = "dict"}}

(***************************************************************************)
(* MaxStorageClient, the pure part.                                        *)
(***************************************************************************)
\* Mutant: the expiry comparison made inclusive.
is_token_valid_inclusive(last_auth_time, t) ==
    last_auth_time # NoAuthTime /\ t <= last_auth_time + TOKEN_EXPIRY

\* client.py:141-146
is_token_valid(last_auth_time, t) ==
    last_auth_time # NoAuthTime /\ t < last_auth_time + TOKEN_EXPIRY

\* Mutant: authenticate() called without looking at the session.
ensure_authenticated_always(last_auth_time, t) == TRUE

\* client.py:82-85  TRUE when ensure_authenticated() calls authenticate()
ensure_authenticated(last_auth_time, t) ==
    ~is_token_valid(last_auth_time, t)

\* Mutant: the timestamp recorded before the status is looked at.
authenticate_stamp_first(last_auth_time, device_info, r, t) ==
    IF r.conn = "error"
    THEN [last_auth_time |-> last_auth_time, device_info |-> device_info,
          exc |-> "ClientConnectorError"]
    ELSE IF r.status = 200
         THEN LET p == _read_device_info(device_info, r.body)
              IN  [last_auth_time |-> t, device_info |-> p.device_info,
                   exc |-> p.exc]
         ELSE [last_auth_time |-> t, device_info |-> device_info,
               exc |-> "AuthenticationFailedError"]

\* client.py:87-97  authenticate(), from the arrival of the login response:
\* the client's fields afterwards and the exception raised, if any.
authenticate(last_auth_time, device_info, r, t) ==
    IF r.conn = "error"
    THEN [last_auth_time |-> last_auth_time, device_info |-> device_info,
          exc |-> "ClientConnectorError"]
    ELSE IF r.status = 200
         THEN LET p == _read_device_info(device_info, r.body)
              IN  [last_auth_time |-> t, device_info |-> p.device_info,
                   exc |-> p.exc]
         ELSE [last_auth_time |-> last_auth_time, device_info |-> device_info,
               exc |-> "AuthenticationFailedError"]

\* client.py:150  await self.ensure_authenticated() stands outside the try
\* block: whatever authenticate() raises leaves get_data() as it is.
get_data_auth_failed(exc) == Raise(exc)

\* Mutant: the status test inverted, a 200 taken as a failure.
get_data_response_inverted(r) ==
    IF r.conn = "error"
    THEN Raise("InvalidHostError")
    ELSE IF r.status # 200
         THEN LET j == ParseJson(r.body)
              IN  IF j.ok THEN Return(j.value) ELSE Raise("ValueError")
         ELSE Raise("HTTPError")

\* Mutant: every 2xx status taken as a success.
get_data_response_any_2xx(r) ==
    IF r.conn = "error"
    THEN Raise("InvalidHostError")
    ELSE IF r.status \in 200..299
         THEN LET j == ParseJson(r.body)
              IN  IF j.ok THEN Return(j.value) ELSE Raise("ValueError")
         ELSE Raise("HTTPError")

\* client.py:151-167  get_data(), from the arrival of the data response.
get_data_response(r) ==
    IF r.conn = "error"
    THEN Raise("InvalidHostError")
    ELSE IF r.status = 200
         THEN LET j == ParseJson(r.body)
              IN  IF j.ok THEN Return(j.value) ELSE Raise("ValueError")
         ELSE Raise("HTTPError")

\* Mutant: the resolver's failure not turned into None.
get_ip_address_unchecked(resolves) == "192.0.2.7"

\* client.py:47-52  get_ip_address: the address, or None on gaierror
get_ip_address(resolves) == IF resolves THEN "192.0.2.7" ELSE "None"

\* client.py:54-80  get_mac_address for each way the probe can end
get_mac_address(probe) ==
    CASE probe = "found" -> [exc |-> "none", mac |-> "00:11:22:33:44:55"]
      [] probe = "no_match" -> [exc |-> "none", mac |-> NoMac]
      [] probe = "called_process_error" -> [exc |-> "none", mac |-> NoMac]
      [] probe = "command_missing" -> [exc |-> "FileNotFoundError", mac |-> NoMac]

Probes == {"found", "no_match", "called_process_error", "command_missing"}

(***************************************************************************)
(* MaxStorageDataUpdateCoordinator.                                        *)
(***************************************************************************)
\* str(e) of what the client raises: client.py:95-96, 135, 159-160,
\* 163-164, 167, and aiohttp's text for a failed connection.  The status
\* and the body that follow in some of the texts are left out.
str(exc) ==
    CASE exc = "AuthenticationFailedError" -> "Authentication Failed with status code"
      [] exc = "DataParserError" -> "Failed to parse device info"
      [] exc = "ValueError" -> "Response not in JSON format"
      [] exc = "HTTPError" -> "Failed to fetch data with status code"
      [] exc = "InvalidHostError" -> "Invalid host"
      [] exc = "ClientConnectorError" -> "Cannot connect to host"
      [] OTHER -> exc

\* coordinator.py:35  an UpdateFailed with a message, in pieces
UpdateFailed(msg) ==
    [kind |-> "raise", exc |-> "UpdateFailed", value |-> PyNone, msg |-> msg]

\* Mutant: the client's error swallowed, None returned instead.
_async_update_data_swallow(result) ==
    IF result.kind = "return" THEN Return(result.value) ELSE Return(PyNone)

\* Mutant: the awaited snapshot not returned.
_async_update_data_noreturn(result) ==
    IF result.kind = "return"
    THEN Return(PyNone)
    ELSE UpdateFailed(<<"Error communicating with API: ", str(result.exc)>>)

\* Mutant: the cause left out of the message.
_async_update_data_no_cause(result) ==
    IF result.kind = "return"
    THEN Return(result.value)
    ELSE UpdateFailed(<<"Error communicating with API">>)

\* coordinator.py:28-35  _async_update_data: the snapshot, or UpdateFailed
\* with the message f"Error communicating with API: {e}"
_async_update_data(result) ==
    IF result.kind = "return"
    THEN Return(result.value)
    ELSE UpdateFailed(<<"Error communicating with API: ", str(result.exc)>>)

\* DataUpdateCoordinator._async_refresh (inherited, coordinator.py:18): the
\* snapshot and the success flag after an update that ended with `update`.
async_refresh(data, update) ==
    IF update.kind = "return"
    THEN [data |-> update.value, last_update_success |-> TRUE,
          last_exception |-> <<>>]
    ELSE [data |-> data, last_update_success |-> FALSE,
          last_exception |-> update.msg]

\* DataUpdateCoordinator.async_config_entry_first_refresh (inherited,
\* called at __init__.py:44): what it raises after a refresh that left the
\* success flag as given.
async_config_entry_first_refresh(last_update_success) ==
    IF last_update_success THEN "none" ELSE "ConfigEntryNotReady"

\* Mutant: the first refresh's exception caught and dropped, so the
\* platforms are forwarded whatever the refresh did.
async_setup_entry_finish_unchecked(exc, platforms) ==
    [entry_state |-> "loaded", platforms |-> PLATFORMS, exc |-> "none"]

\* __init__.py:43-49  async_setup_entry from the end of the first refresh:
\* an exception of the refresh leaves the function at line 44, otherwise the
\* platforms are forwarded and the entry is loaded.
async_setup_entry_finish(exc, platforms) ==
    IF exc = "none"
    THEN [entry_state |-> "loaded", platforms |-> PLATFORMS, exc |-> "none"]
    ELSE [entry_state |-> IF exc = "ConfigEntryNotReady"
                          THEN "setup_retry" ELSE "setup_error",
          platforms |-> platforms, exc |-> exc]

(***************************************************************************)
(* The entities: coordinator.py:37-52, sensor.py, binary_sensor.py.        *)
(***************************************************************************)
\* coordinator.py:37-52  the coordinator's device_info property, for a
\* client with the given identity and MAC address.
coordinator_device_info(device_info, mac) ==
    IF IdentityKeys \subseteq DOMAIN device_info
    THEN Return(
           [identifiers |-> device_info["Ident"],
            manufacturer |-> "SolarMax",
            serial_number |-> device_info["MasterController-Nummer"],
            sw_version |-> device_info["Firmware-Version"],
            hw_version |-> device_info["Hardware-Version"],
            connections |-> IF mac # NoMac THEN {mac} ELSE {}])
    ELSE Raise("KeyError")

\* sensor.py:64-75, binary_sensor.py:80-91  what an entity's constructor
\* raises.
entity_init(device_info, mac) ==
    IF "Ident" \notin DOMAIN device_info
    THEN "KeyError"
    ELSE coordinator_device_info(device_info, mac).exc

\* sensor.py:93  the keys of the sensor descriptions (two of them).
SENSOR_TYPES == {"batterySoC", "gridPower"}

\* sensor.py:26-37  the sensor platform's setup: one entity per description.
sensor_async_setup_entry(device_info, mac) ==
    IF entity_init(device_info, mac) # "none"
    THEN [exc |-> entity_init(device_info, mac), entities |-> {}]
    ELSE [exc |-> "none", entities |-> SENSOR_TYPES]

\* binary_sensor.py:35-36  the relay names of a snapshot
relais_names(data) ==
    IF /\ data.tag = "dict"
       /\ "Relais" \in DOMAIN data.items
       /\ "name" \in DOMAIN data.items.Relais
    THEN data.items.Relais.name ELSE <<>>

\* binary_sensor.py:45  data.get("Relais", {}).get("value", [])
relais_values(data) ==
    IF /\ data.tag = "dict"
       /\ "Relais" \in DOMAIN data.items
       /\ "value" \in DOMAIN data.items.Relais
    THEN data.items.Relais.value ELSE <<>>

\* binary_sensor.py:38-39  the indices (from 0) that carry a name
named_indices(names) == {i - 1 : i \in {j \in 1..Len(names) : names[j] # ""}}

\* binary_sensor.py:26-53  the relay platform's setup: the indices an entity
\* was added for.
binary_sensor_async_setup_entry(data, device_info, mac) ==
    IF data.tag # "dict"
    THEN [exc |-> "AttributeError", entities |-> {}]
    ELSE IF named_indices(relais_names(data)) # {}
            /\ entity_init(device_info, mac) # "none"
         THEN [exc |-> entity_init(device_info, mac), entities |-> {}]
         ELSE [exc |-> "none", entities |-> named_indices(relais_names(data))]

\* binary_sensor.py:44-46, 98-101  is_on of the entity made for index idx
is_on(data, idx) ==
    IF data.tag # "dict"
    THEN [kind |-> "raise", exc |-> "AttributeError", on |-> FALSE]
    ELSE IF idx + 1 \in 1..Len(relais_values(data))
         THEN [kind |-> "return", exc |-> "none",
               on |-> relais_values(data)[idx + 1] # 0]
         ELSE [kind |-> "raise", exc |-> "IndexError", on |-> FALSE]

\* sensor.py:77-80, 93  native_value of the sensor for `key`:
\* value_fn is data[key]
native_value(data, key) ==
    IF data.tag # "dict"
    THEN [kind |-> "raise", exc |-> "TypeError"]
    ELSE IF key \in DOMAIN data.items
         THEN [kind |-> "return", exc |-> "none"]
         ELSE [kind |-> "raise", exc |-> "KeyError"]

\* __init__.py:46  async_forward_entry_setups for the platforms in `which`:
\* each platform's async_setup_entry runs, and one that raises adds nothing.
forward(which, data, device_info, mac) ==
    [sensor |-> IF "sensor" \in which
                THEN sensor_async_setup_entry(device_info, mac).entities
                ELSE {},
     binary_sensor |->
         IF "binary_sensor" \in which
         THEN binary_sensor_async_setup_entry(data, device_info, mac).entities
         ELSE {}]

\* Mutant: the platforms forwarded before the first refresh is awaited.
forwarded_at_first_refresh_all == PLATFORMS

\* __init__.py:43-46  the platforms async_setup_entry has forwarded when it
\* awaits the first refresh (line 44): none, the forward is at line 46.
forwarded_at_first_refresh == {}

\* CoordinatorEntity.async_added_to_hass (host framework): every entity
\* added listens to the coordinator.
listeners(sensor_entities, relay_entities) ==
    sensor_entities # {} \/ relay_entities # {}

\* __init__.py:52-63  async_unload_entry, for the answer unload_ok of
\* async_unload_platforms: the client is closed in any case, the registry
\* entry is removed only when the platforms were unloaded.
async_unload_entry(unload_ok, registry) ==
    [session |-> "closed",
     registry |-> IF unload_ok THEN FALSE ELSE registry,
     result |-> unload_ok]

\* client.py:90, 152  session.post on a closed session: aiohttp raises
\* RuntimeError before anything is sent, and get_data() catches only
\* ClientConnectorError (client.py:166).
get_data_session_closed == Raise("RuntimeError")

(***************************************************************************)
(* State.                                                                  *)
(***************************************************************************)
VARIABLES
    now,                  \* time.time()
    advances,             \* times the clock was advanced
    last_auth_time,       \* client.last_auth_time
    device_info,          \* client.device_info
    mac,                  \* client.mac
    session,              \* client.session: "none" before a client
                          \* exists, then "open" or "closed"
    data,                 \* coordinator.data
    last_update_success,  \* coordinator.last_update_success
    last_exception,       \* the message of coordinator.last_exception, in
                          \* pieces (empty: no exception)
    registry,             \* hass.data[DOMAIN] holds the entry
    entry_state,          \* the config entry's state in the host
    platforms,            \* platforms set up for the entry
    pc,                   \* where the flow of control awaits
    caller,               \* who called get_data()
    resp,                 \* the answer to the request in flight
    call,                 \* the current/last get_data(): session validity
                          \* at its start and its requests, in order
    get_data_outcome,     \* how the current/last get_data() ended
    auth_outcome,         \* how the last authenticate() ended
    setup_exc,            \* what the last async_setup_entry raised
    before_refresh,       \* the coordinator's snapshot and flag as they
                          \* were when the last refresh began
    lookup,               \* how socket.gethostbyname answered the last
                          \* client.setup(): "resolved" or "gaierror"
    flow_pc,              \* where maxstorage_ultimate_init awaits
    flow_resp,            \* the answer to the config flow's request
    flow_session,         \* the session of the config flow's client
    flow_device_info,     \* device_info of the config flow's client
    flow_exc,             \* what was raised inside the flow's try block
    flow_unique_id,       \* the flow's unique id
    flow_result,          \* how the last maxstorage_ultimate_init ended
    sensor_entities,      \* the sensor entities added, by key
    relay_entities,       \* the relay entities added, by index
    timer,                \* the coordinator's next tick is scheduled
    in_flight,            \* get_data() calls in flight on the client
    device_ok             \* the device has recovered: from now on it
                          \* answers every request correctly

clientVars == <<last_auth_time, device_info, mac, session>>

coordVars == <<data, last_update_success, last_exception>>

hostVars == <<registry, entry_state, platforms, setup_exc>>

vars ==
    <<now, advances, last_auth_time, device_info, mac, session, data,
      last_update_success, last_exception, registry, entry_state, platforms, pc, caller,
      resp, call, get_data_outcome, auth_outcome, setup_exc, before_refresh,
      lookup, flow_pc, flow_resp, flow_session, flow_device_info, flow_exc,
      flow_unique_id, flow_result, sensor_entities, relay_entities, timer,
      in_flight, device_ok>>

entityVars == <<sensor_entities, relay_entities>>

schedVars == <<timer, in_flight>>

flowVars ==
    <<flow_pc, flow_resp, flow_session, flow_device_info, flow_exc,
      flow_unique_id, flow_result>>

\* Everything but the clock and the config flow.
entryVars ==
    <<last_auth_time, device_info, mac, session, data, last_update_success,
      last_exception, registry,
      entry_state, platforms, pc, caller, resp, call, get_data_outcome,
      auth_outcome, setup_exc, before_refresh, lookup, sensor_entities,
      relay_entities, timer, in_flight, device_ok>>

Init ==
    /\ now = 0
    /\ advances = 0
    /\ last_auth_time = NoAuthTime
    /\ device_info = EmptyDict
    /\ mac = NoMac
    /\ session = "none"
    /\ data = PyNone
    /\ last_update_success = TRUE
    /\ last_exception = <<>>
    /\ registry = FALSE
    /\ entry_state = "not_loaded"
    /\ platforms = {}
    /\ pc = "idle"
    /\ caller = "none"
    /\ resp = NoResp
    /\ call = [valid |-> FALSE, log |-> <<>>]
    /\ get_data_outcome = NoCall
    /\ auth_outcome = "nocall"
    /\ setup_exc = "none"
    /\ before_refresh = [data |-> PyNone, last_update_success |-> TRUE]
    /\ lookup = "nolookup"
    /\ flow_pc = "idle"
    /\ flow_resp = NoResp
    /\ flow_session = "none"
    /\ flow_device_info = EmptyDict
    /\ flow_exc = "none"
    /\ flow_unique_id = "unset"
    /\ flow_result = [kind |-> "nocall", error |-> "None"]
    /\ sensor_entities = {}
    /\ relay_entities = {}
    /\ timer = FALSE
    /\ in_flight = 0
    /\ device_ok = FALSE

(***************************************************************************)
(* Environment.                                                            *)
(***************************************************************************)
\* Wall-clock time passes.
Advance ==
    /\ advances < MaxAdvances
    /\ \E d \in Deltas : now' = now + d
    /\ advances' = advances + 1
    /\ UNCHANGED <<entryVars, flowVars>>

\* The request in flight is answered (or its connection fails).
DeviceAnswers ==
    /\ pc \in {"setup_login", "fetch_login", "fetch_data"}
    /\ resp.conn = "none"
    /\ resp' \in IF pc = "fetch_data"
                 THEN IF device_ok THEN CorrectDataResponses ELSE DataResponses
                 ELSE IF device_ok THEN CorrectLoginResponses ELSE LoginResponses
    /\ UNCHANGED <<now, advances, device_ok, clientVars, coordVars, hostVars, pc, caller,
                   call, get_data_outcome, auth_outcome, before_refresh, lookup,
                   flowVars, entityVars, schedVars>>

(***************************************************************************)
(* get_data(): client.py:148-167, called by the coordinator.               *)
(***************************************************************************)
\* get_data() up to its first await, for a client whose timestamp is lat.
BeginGetData(who, lat) ==
    /\ caller' = who
    /\ call' = [valid |-> is_token_valid(lat, now),
                log |-> IF ensure_authenticated(lat, now)
                        THEN <<"login_sent">> ELSE <<"data_sent">>]
    /\ pc' = IF ensure_authenticated(lat, now) THEN "fetch_login" ELSE "fetch_data"
    /\ resp' = NoResp
    /\ get_data_outcome' = Pending
    /\ in_flight' = in_flight + 1

\* __init__.py:44  the first refresh begins, for a client with timestamp
\* lat, identity info and MAC address m, and a coordinator holding d.  An
\* entity that starts to listen while the refresh is in flight schedules
\* the next tick.
BeginFirstRefresh(lat, info, m, d) ==
    LET f == forward(forwarded_at_first_refresh, d, info, m)
    IN  /\ BeginGetData("first_refresh", lat)
        /\ sensor_entities' = sensor_entities \cup f.sensor
        /\ relay_entities' = relay_entities \cup f.binary_sensor
        /\ timer' = (/\ ~listeners(sensor_entities, relay_entities)
                     /\ listeners(sensor_entities', relay_entities'))

\* get_data() has ended with `result`: the coordinator's refresh completes,
\* and a first refresh lets async_setup_entry go on or fail.
EndGetData(result) ==
    LET r == async_refresh(data, _async_update_data(result))
        f == async_setup_entry_finish(
                 async_config_entry_first_refresh(r.last_update_success),
                 platforms)
    IN  /\ get_data_outcome' = result
        /\ before_refresh' = [data |-> data,
                              last_update_success |-> last_update_success]
        /\ data' = r.data
        /\ last_update_success' = r.last_update_success
        /\ last_exception' = r.last_exception
        /\ IF caller = "first_refresh"
           THEN /\ entry_state' = f.entry_state
                /\ platforms' = f.platforms
                /\ setup_exc' = f.exc
                /\ IF f.exc = "none"
                   THEN LET e == forward(f.platforms, r.data, device_info, mac)
                        IN  /\ sensor_entities' = e.sensor
                            /\ relay_entities' = e.binary_sensor
                   ELSE UNCHANGED entityVars
           ELSE UNCHANGED <<entry_state, platforms, setup_exc, entityVars>>
        /\ timer' = listeners(sensor_entities', relay_entities')
        /\ in_flight' = in_flight - 1
        /\ pc' = "idle"
        /\ caller' = "none"
        /\ resp' = NoResp
        /\ UNCHANGED registry

\* The lazy login of get_data() is answered.
FetchLoginDone ==
    /\ pc = "fetch_login"
    /\ resp.conn # "none"
    /\ LET a == authenticate(last_auth_time, device_info, resp, now)
       IN  /\ last_auth_time' = a.last_auth_time
           /\ device_info' = a.device_info
           /\ auth_outcome' = IF a.exc = "none" THEN "ok" ELSE a.exc
           /\ IF a.exc = "none"
              THEN /\ pc' = "fetch_data"
                   /\ resp' = NoResp
                   /\ call' = [call EXCEPT !.log = @ \o <<"login_done", "data_sent">>]
                   /\ UNCHANGED <<coordVars, hostVars, caller, get_data_outcome,
                                  before_refresh, entityVars, schedVars>>
              ELSE /\ EndGetData(get_data_auth_failed(a.exc))
                   /\ call' = [call EXCEPT !.log = @ \o <<"login_failed">>]
    /\ UNCHANGED <<now, advances, device_ok, mac, session, lookup, flowVars>>

\* The data request of get_data() is answered.
FetchDataDone ==
    /\ pc = "fetch_data"
    /\ resp.conn # "none"
    /\ EndGetData(get_data_response(resp))
    /\ call' = [call EXCEPT !.log = @ \o <<"data_done">>]
    /\ UNCHANGED <<now, advances, device_ok, clientVars, auth_outcome, lookup, flowVars>>

\* A scheduled tick of the coordinator (update_interval, coordinator.py:25).
\* The scheduled call fires whatever the flow of control is doing; the
\* refresh it starts unschedules the timer.
Tick ==
    /\ timer
    /\ IF session = "closed"
       THEN \* get_data() raises at once, the refresh fails and the next
            \* tick is scheduled
            LET result == get_data_session_closed
                r == async_refresh(data, _async_update_data(result))
            IN  /\ call' = [valid |-> is_token_valid(last_auth_time, now),
                            log |-> <<>>]
                /\ get_data_outcome' = result
                /\ before_refresh' = [data |-> data,
                                      last_update_success |-> last_update_success]
                /\ data' = r.data
                /\ last_update_success' = r.last_update_success
                /\ last_exception' = r.last_exception
                /\ timer' = listeners(sensor_entities, relay_entities)
                /\ UNCHANGED <<pc, caller, resp, in_flight>>
       ELSE /\ timer' = FALSE
            /\ IF pc = "idle"
               THEN BeginGetData("tick", last_auth_time)
               ELSE \* a second get_data() on the client while one is in
                    \* flight
                    /\ in_flight < 2
                    /\ in_flight' = in_flight + 1
                    /\ UNCHANGED <<pc, caller, resp, call, get_data_outcome>>
            /\ UNCHANGED <<coordVars, before_refresh>>
    /\ UNCHANGED <<now, advances, device_ok, clientVars, hostVars, auth_outcome,
                   lookup, flowVars, entityVars>>

(***************************************************************************)
(* async_setup_entry: __init__.py:16-49.                                   *)
(***************************************************************************)
\* The entry is set up (first time, retry after not-ready, or reload after
\* an error), up to the first await on the network.
SetupEntry ==
    /\ entry_state \in {"not_loaded", "setup_retry", "setup_error"}
    /\ pc = "idle"
    /\ IF ~registry
       THEN \* a new client: __init__.py:26-32, client.py:18-45
            /\ session' = "open"
            /\ last_auth_time' = NoAuthTime
            /\ device_info' = EmptyDict
            /\ mac' = NoMac
            /\ \E resolves \in BOOLEAN :
                 /\ lookup' = IF resolves THEN "resolved" ELSE "gaierror"
                 /\ IF get_ip_address(resolves) = "None"
                    THEN /\ entry_state' = "setup_error"
                         /\ setup_exc' = "InvalidHostError"
                         /\ UNCHANGED <<pc, resp>>
                    ELSE /\ entry_state' = "setup_in_progress"
                         /\ setup_exc' = "none"
                         /\ pc' = "setup_login"
                         /\ resp' = NoResp
            /\ UNCHANGED <<caller, call, get_data_outcome, entityVars,
                           schedVars>>
       ELSE \* the registered pair is reused: __init__.py:39-44
            /\ entry_state' = "setup_in_progress"
            /\ setup_exc' = "none"
            /\ BeginFirstRefresh(last_auth_time, device_info, mac, data)
            /\ UNCHANGED <<clientVars, lookup>>
    /\ UNCHANGED <<now, advances, device_ok, coordVars, registry, platforms, auth_outcome,
                   before_refresh, flowVars>>

\* client.setup()'s login is answered: client.py:43-45, then
\* __init__.py:34-44 up to the first refresh's first await.
SetupLoginDone ==
    /\ pc = "setup_login"
    /\ resp.conn # "none"
    /\ LET a == authenticate(last_auth_time, device_info, resp, now)
       IN  /\ last_auth_time' = a.last_auth_time
           /\ device_info' = a.device_info
           /\ auth_outcome' = IF a.exc = "none" THEN "ok" ELSE a.exc
           /\ IF a.exc # "none"
              THEN /\ entry_state' = "setup_error"
                   /\ setup_exc' = a.exc
                   /\ pc' = "idle"
                   /\ resp' = NoResp
                   /\ UNCHANGED <<mac, coordVars, registry, caller, call,
                                  get_data_outcome, before_refresh, entityVars,
                                  schedVars>>
              ELSE \E probe \in Probes :
                     LET m == get_mac_address(probe)
                     IN  /\ mac' = m.mac
                         /\ IF m.exc # "none"
                            THEN /\ entry_state' = "setup_error"
                                 /\ setup_exc' = m.exc
                                 /\ pc' = "idle"
                                 /\ resp' = NoResp
                                 /\ UNCHANGED <<coordVars, registry, caller,
                                                call, get_data_outcome,
                                                before_refresh, entityVars,
                                                schedVars>>
                            ELSE /\ data' = PyNone
                                 /\ last_update_success' = TRUE
                                 /\ last_exception' = <<>>
                                 /\ registry' = TRUE
                                 /\ before_refresh' =
                                      [data |-> PyNone,
                                       last_update_success |-> TRUE]
                                 /\ BeginFirstRefresh(a.last_auth_time,
                                                      a.device_info, m.mac,
                                                      PyNone)
                                 /\ UNCHANGED <<entry_state, setup_exc>>
    /\ UNCHANGED <<now, advances, device_ok, session, platforms, lookup,
                   flowVars>>

(***************************************************************************)
(* async_unload_entry: __init__.py:52-63.                                  *)
(***************************************************************************)
\* The host unloads the loaded entry, between two polls.  Platforms that
\* unload remove their entities and with them the scheduled tick; when
\* async_unload_platforms answers False the entities stay and the host
\* marks the entry as failed to unload.
UnloadEntry ==
    /\ entry_state = "loaded"
    /\ pc = "idle"
    /\ \E unload_ok \in BOOLEAN :
         LET u == async_unload_entry(unload_ok, registry)
         IN  /\ session' = u.session
             /\ registry' = u.registry
             /\ IF u.result
                THEN /\ entry_state' = "not_loaded"
                     /\ platforms' = {}
                     /\ sensor_entities' = {}
                     /\ relay_entities' = {}
                     /\ timer' = FALSE
                ELSE /\ entry_state' = "failed_unload"
                     /\ UNCHANGED <<platforms, entityVars, timer>>
    /\ UNCHANGED <<now, advances, device_ok, last_auth_time, device_info, mac,
                   coordVars, setup_exc, caller, pc, resp, call,
                   get_data_outcome, auth_outcome, before_refresh, lookup,
                   flowVars, in_flight>>

(***************************************************************************)
(* The config flow's validation: config_flow.py:49-66.  It works on a      *)
(* client of its own.                                                      *)
(***************************************************************************)
\* Mutant: no catch-all clause, an unclassified exception leaves the
\* function.
maxstorage_ultimate_init_no_catch_all(exc) ==
    CASE exc = "none" -> [kind |-> "return", error |-> "None"]
      [] exc = "AuthenticationFailedError" ->
             [kind |-> "return", error |-> "ERROR_AUTH_INVALID"]
      [] exc = "InvalidHostError" ->
             [kind |-> "return", error |-> "ERROR_CANNOT_CONNECT"]
      [] OTHER -> [kind |-> "raise", error |-> exc]

\* config_flow.py:58-66  what maxstorage_ultimate_init returns when its try
\* block ended with exception exc ("none": it ran to its end).
maxstorage_ultimate_init(exc) ==
    CASE exc = "none" -> [kind |-> "return", error |-> "None"]
      [] exc = "AuthenticationFailedError" ->
             [kind |-> "return", error |-> "ERROR_AUTH_INVALID"]
      [] exc = "InvalidHostError" ->
             [kind |-> "return", error |-> "ERROR_CANNOT_CONNECT"]
      [] OTHER -> [kind |-> "return", error |-> "ERROR_UNKNOWN"]

\* config_flow.py:56  client.get_device_info()["Ident"]
get_ident(info) ==
    IF "Ident" \in DOMAIN info
    THEN Return(info["Ident"]) ELSE Raise("KeyError")

\* ConfigFlow.async_set_unique_id (host framework, called at
\* config_flow.py:56): it sets the id, or aborts when another flow for the
\* same id is in progress.
SetUniqueIdOutcomes == {"none", "AbortFlow"}

\* config_flow.py:54-55  a client is constructed and get_data() called: the
\* new client has no timestamp, so its first request is the login.
FlowStart ==
    /\ flow_pc = "idle"
    /\ flow_session' = "open"
    /\ flow_device_info' = EmptyDict
    /\ flow_pc' = IF ensure_authenticated(NoAuthTime, now) THEN "login" ELSE "data"
    /\ flow_resp' = NoResp
    /\ flow_exc' = "none"
    /\ flow_unique_id' = "unset"
    /\ flow_result' = [kind |-> "pending", error |-> "None"]
    /\ UNCHANGED <<now, advances, entryVars>>

\* The flow's request in flight is answered.
FlowDeviceAnswers ==
    /\ flow_pc \in {"login", "data"}
    /\ flow_resp.conn = "none"
    /\ flow_resp' \in IF flow_pc = "data" THEN DataResponses ELSE LoginResponses
    /\ UNCHANGED <<now, advances, entryVars, flow_pc, flow_session,
                   flow_device_info, flow_exc, flow_unique_id, flow_result>>

\* config_flow.py:55-66 from the return of get_data(): the unique id, the
\* close of the client, and the mapping of what was raised.
FlowEnd(result, info) ==
    \E abort \in SetUniqueIdOutcomes :
      LET ident == get_ident(info)
          exc == IF result.kind = "raise" THEN result.exc
                 ELSE IF ident.kind = "raise" THEN ident.exc
                 ELSE abort
      IN  /\ flow_exc' = exc
          /\ flow_unique_id' = IF result.kind = "return" /\ ident.kind = "return"
                                  /\ abort = "none"
                               THEN ident.value ELSE "unset"
          /\ flow_session' = IF exc = "none" THEN "closed" ELSE flow_session
          /\ flow_result' = maxstorage_ultimate_init(exc)
          /\ flow_pc' = "idle"
          /\ flow_resp' = NoResp

\* The login of the flow's get_data() is answered.
FlowLoginDone ==
    /\ flow_pc = "login"
    /\ flow_resp.conn # "none"
    /\ LET a == authenticate(NoAuthTime, flow_device_info, flow_resp, now)
       IN  /\ flow_device_info' = a.device_info
           /\ IF a.exc = "none"
              THEN /\ flow_pc' = "data"
                   /\ flow_resp' = NoResp
                   /\ UNCHANGED <<flow_session, flow_exc, flow_unique_id,
                                  flow_result>>
              ELSE FlowEnd(get_data_auth_failed(a.exc), a.device_info)
    /\ UNCHANGED <<now, advances, entryVars>>

\* The data request of the flow's get_data() is answered.
FlowDataDone ==
    /\ flow_pc = "data"
    /\ flow_resp.conn # "none"
    /\ FlowEnd(get_data_response(flow_resp), flow_device_info)
    /\ UNCHANGED <<now, advances, entryVars, flow_device_info>>

FlowNext ==
    \/ Advance
    \/ FlowStart
    \/ FlowDeviceAnswers
    \/ FlowLoginDone
    \/ FlowDataDone

\* The config flow alone: it shares nothing with a configured entry.
FlowSpec == Init /\ [][FlowNext]_vars

Next ==
    \/ Advance
    \/ DeviceAnswers
    \/ SetupEntry
    \/ SetupLoginDone
    \/ Tick
    \/ FetchLoginDone
    \/ FetchDataDone
    \/ UnloadEntry

Spec == Init /\ [][Next]_vars

(***************************************************************************)
(* Steps the properties speak about.                                       *)
(***************************************************************************)
\* authenticate() handles the answer to its login request in this step.
LoginHandled ==
    /\ pc \in {"setup_login", "fetch_login"}
    /\ resp.conn # "none"
    /\ resp'.conn = "none"

\* get_data() handles the answer to one of its requests in this step.
FetchHandled ==
    /\ pc \in {"fetch_login", "fetch_data"}
    /\ resp.conn # "none"
    /\ resp'.conn = "none"

\* A poll (first refresh or tick) ends in this step.
PollEnds == FetchHandled /\ pc' = "idle"

\* The login page holds an element whose text is a recognised key.
BodyHasKey(body) ==
    \E i \in 1..Len(body) : KeyText(body[i].text) \in RecognisedKeys

\* The requests of a get_data() call, by position in its log.
Positions(what) == {i \in 1..Len(call.log) : call.log[i] = what}

(***************************************************************************)
(* Properties.                                                             *)
(***************************************************************************)
(***************************************************************************)
(* Recovery: the device comes back, and the scheduler and the event loop   *)
(* keep running.                                                           *)
(***************************************************************************)
\* The device is in working order from now on.
DeviceRecovers ==
    /\ ~device_ok
    /\ device_ok' = TRUE
    /\ UNCHANGED <<now, advances, clientVars, coordVars, hostVars, pc, caller,
                   resp, call, get_data_outcome, auth_outcome, before_refresh,
                   lookup, flowVars, entityVars, schedVars>>

\* Wall-clock time passes.
LiveAdvance ==
    /\ advances < MaxLiveAdvances
    /\ \E d \in Deltas : now' = now + d
    /\ advances' = advances + 1
    /\ UNCHANGED <<entryVars, flowVars>>

LiveNext ==
    \/ LiveAdvance
    \/ DeviceAnswers
    \/ FetchLoginDone
    \/ FetchDataDone
    \/ Tick
    \/ SetupEntry
    \/ SetupLoginDone
    \/ DeviceRecovers

\* A scheduled tick fires, a request in flight is answered and an answer
\* is handled: none of them waits for ever.
LiveSpec ==
    /\ Init
    /\ [][LiveNext]_vars
    /\ WF_vars(Tick)
    /\ WF_vars(DeviceAnswers)
    /\ WF_vars(FetchLoginDone)
    /\ WF_vars(FetchDataDone)

\* C1: a poll that ends with get_data() raising leaves the coordinator's
\* snapshot exactly as it was before the poll and sets the failure flag
\* (last_update_success = FALSE).
C1_FailedPollKeepsSnapshot ==
    [][(PollEnds /\ get_data_outcome'.kind = "raise")
         => (data' = data /\ last_update_success' = FALSE)]_vars

\* The spec's scenario: {batterySoC: 50} was published by a successful poll,
\* the next poll failed, the snapshot is still {batterySoC: 50}.
C1_Witness ==
    /\ pc = "idle"
    /\ get_data_outcome.kind = "raise"
    /\ before_refresh = [data |-> PyDict(Snapshot50), last_update_success |-> TRUE]
    /\ data = PyDict(Snapshot50)
    /\ last_update_success = FALSE

\* C2: a poll that ends with get_data() returning a mapping makes the
\* snapshot exactly that mapping (nothing of the earlier snapshot is kept)
\* and the failure flag false, whatever the earlier polls did.
C2_SuccessfulPollReplacesSnapshot ==
    [][(PollEnds /\ get_data_outcome'.kind = "return")
         => /\ get_data_outcome'.value = ParseJson(resp.body).value
            /\ data' = get_data_outcome'.value
            /\ last_update_success' = TRUE]_vars

\* A two-key snapshot and a failed poll, then a poll returning the one-key
\* mapping: the snapshot is the one-key mapping, gridPower is gone.
C2_Witness ==
    /\ pc = "idle"
    /\ get_data_outcome = Return(PyDict(Snapshot50))
    /\ before_refresh = [data |-> PyDict(Snapshot87), last_update_success |-> FALSE]
    /\ data = PyDict(Snapshot50)
    /\ DOMAIN data.items = {"batterySoC"}
    /\ last_update_success = TRUE

\* C3: a get_data() call begun with an invalid session makes exactly one
\* login request, first, and issues its data request only after that login
\* has completed; a call begun with a valid session makes no login request.
C3_OneLazyLogin ==
    call.log # <<>> =>
      IF call.valid
      THEN Positions("login_sent") = {}
      ELSE /\ Positions("login_sent") = {1}
           /\ \A i \in Positions("data_sent") :
                \E j \in Positions("login_done") : j < i

\* A call begun with an invalid session that logged in and then fetched.
C3_Witness ==
    /\ ~call.valid
    /\ call.log = <<"login_sent", "login_done", "data_sent", "data_done">>
    /\ get_data_outcome.kind = "return"

\* C4: is_token_valid() is false when no timestamp was recorded, false at
\* an age of exactly 600 seconds and above, true at every age below 600.
C4_TokenValidity ==
    LET age == now - last_auth_time
    IN  /\ last_auth_time = NoAuthTime => ~is_token_valid(last_auth_time, now)
        /\ (last_auth_time # NoAuthTime /\ age = 600)
             => ~is_token_valid(last_auth_time, now)
        /\ (last_auth_time # NoAuthTime /\ age > 600)
             => ~is_token_valid(last_auth_time, now)
        /\ (last_auth_time # NoAuthTime /\ age < 600)
             => is_token_valid(last_auth_time, now)

\* A get_data() begun at an age of exactly 600 seconds: the session counted
\* as invalid and the call logged in again.
C4_Witness ==
    /\ last_auth_time # NoAuthTime
    /\ now - last_auth_time = 600
    /\ pc = "fetch_login"
    /\ ~call.valid
    /\ call.log = <<"login_sent">>

\* C5: a first refresh that fails makes async_setup_entry raise
\* ConfigEntryNotReady with no platform set up; a failed poll of a loaded
\* entry sets the failure flag and leaves the entry loaded, registered and
\* its platforms set up.
C5_FirstRefreshPrivileged ==
    [][(PollEnds /\ get_data_outcome'.kind = "raise")
         => IF caller = "first_refresh"
            THEN /\ entry_state' = "setup_retry"
                 /\ setup_exc' = "ConfigEntryNotReady"
                 /\ platforms' = {}
            ELSE /\ last_update_success' = FALSE
                 /\ entry_state = "loaded" /\ entry_state' = "loaded"
                 /\ platforms = PLATFORMS /\ platforms' = PLATFORMS
                 /\ registry /\ registry'
                 /\ setup_exc' = setup_exc]_vars

\* Setup ended not-ready after a failed first refresh.
C5_Witness ==
    /\ entry_state = "setup_retry"
    /\ setup_exc = "ConfigEntryNotReady"
    /\ get_data_outcome.kind = "raise"
    /\ last_update_success = FALSE
    /\ platforms = {}
    /\ registry

\* C6: every authenticate() whose login answer is a 200 with a page holding
\* no recognised key fails with DataParserError and leaves no device
\* identity in the client.
C6_NoKeysIsParseError ==
    [][(LoginHandled /\ resp.conn = "ok" /\ resp.status = 200
          /\ ~BodyHasKey(resp.body))
         => (auth_outcome' = "DataParserError" /\ device_info' = EmptyDict)]_vars

\* C7: whenever the last authenticate() returned without error, the device
\* identity holds every identity key.
C7_IdentityComplete ==
    auth_outcome = "ok" => IdentityKeys \subseteq DOMAIN device_info

\* C8: a login answered with a non-success status makes authenticate() fail
\* with AuthenticationFailedError, timestamp and identity untouched; and the
\* timestamp of a client changes only when authenticate() handles a 200 (a
\* newly constructed client starts without one).
C8_FailedLoginChangesNothing ==
    [][/\ (LoginHandled /\ resp.conn = "ok" /\ ~(resp.status \in 200..299))
          => /\ auth_outcome' = "AuthenticationFailedError"
             /\ last_auth_time' = last_auth_time
             /\ device_info' = device_info
       /\ (last_auth_time' # last_auth_time)
          => \/ /\ LoginHandled /\ resp.conn = "ok" /\ resp.status = 200
                /\ last_auth_time' = now
             \/ /\ pc = "idle" /\ ~registry
                /\ last_auth_time' = NoAuthTime]_vars

\* A re-login was rejected: the earlier timestamp and identity are still
\* there.
C8_Witness ==
    /\ auth_outcome = "AuthenticationFailedError"
    /\ last_auth_time # NoAuthTime
    /\ now - last_auth_time >= 600
    /\ IdentityKeys \subseteq DOMAIN device_info
    /\ get_data_outcome = Raise("AuthenticationFailedError")

\* C9: a connection failure on any request of get_data(), the lazy login or
\* the data request, makes get_data() fail with InvalidHostError.
C9_ConnectFailureIsInvalidHost ==
    [][(FetchHandled /\ resp.conn = "error")
         => get_data_outcome' = Raise("InvalidHostError")]_vars

\* C10: a 200 from the data endpoint whose body is not JSON makes get_data()
\* fail with DataParserError.
C10_BadJsonIsParseError ==
    [][(FetchHandled /\ pc = "fetch_data" /\ resp.conn = "ok"
          /\ resp.status = 200 /\ ~ParseJson(resp.body).ok)
         => get_data_outcome' = Raise("DataParserError")]_vars

\* The data request of get_data() is answered with an HTTP response, which
\* get_data() handles in this step.
DataHandled == FetchHandled /\ pc = "fetch_data" /\ resp.conn = "ok"

\* C11 (as claimed): a non-2xx answer of the data endpoint makes get_data()
\* fail with HTTPError and return no snapshot; any 2xx answer with a JSON
\* body makes it return the parsed mapping.
C11_Any2xxReturnsMapping ==
    [][DataHandled
         => /\ ~(resp.status \in 200..299)
               => /\ get_data_outcome'.kind = "raise"
                  /\ get_data_outcome'.exc = "HTTPError"
            /\ (resp.status \in 200..299 /\ ParseJson(resp.body).ok)
               => /\ get_data_outcome'.kind = "return"
                  /\ get_data_outcome'.value = ParseJson(resp.body).value]_vars

\* C11 (amended): every answer of the data endpoint with a status other
\* than 200, non-2xx or not, makes get_data() fail with HTTPError, return no
\* snapshot and leave the coordinator's snapshot as it was; a 200 with a
\* JSON body makes it return the parsed mapping.
C11_Only200ReturnsMapping ==
    [][DataHandled
         => /\ resp.status # 200
               => /\ get_data_outcome'.kind = "raise"
                  /\ get_data_outcome'.exc = "HTTPError"
                  /\ get_data_outcome'.value = PyNone
                  /\ data' = data
            /\ (resp.status = 200 /\ ParseJson(resp.body).ok)
               => /\ get_data_outcome'.kind = "return"
                  /\ get_data_outcome'.value = ParseJson(resp.body).value]_vars

\* A poll of a loaded entry ended in HTTPError; the earlier snapshot stays.
C11_Witness ==
    /\ pc = "idle"
    /\ get_data_outcome.kind = "raise"
    /\ get_data_outcome.exc = "HTTPError"
    /\ data = PyDict(Snapshot87)
    /\ last_update_success = FALSE

\* C12: once the login of client.setup() has succeeded, setup() completes
\* however the MAC probe ends (ping or arp exits non-zero, a command is not
\* available, no address in the output): async_setup_entry goes on to
\* register the pair, and mac is the address found or None.
C12_MacProbeNeverFatal ==
    [][(LoginHandled /\ pc = "setup_login" /\ auth_outcome' = "ok")
         => /\ setup_exc' = "none"
            /\ entry_state' = "setup_in_progress"
            /\ registry'
            /\ mac' \in {NoMac, get_mac_address("found").mac}]_vars

\* C13: when the host of client.setup() does not resolve, setup() fails with
\* InvalidHostError with no request sent, and the new client has no
\* timestamp, no identity and no mac; nothing is registered.
C13_UnresolvedHostFailsSetup ==
    lookup = "gaierror"
      => /\ entry_state = "setup_error"
         /\ setup_exc = "InvalidHostError"
         /\ pc = "idle"
         /\ resp.conn = "none"
         /\ last_auth_time = NoAuthTime
         /\ device_info = EmptyDict
         /\ mac = NoMac
         /\ ~registry

\* The host did not resolve on a reload that follows an earlier setup in
\* which a login had been made.
C13_Witness ==
    /\ lookup = "gaierror"
    /\ setup_exc = "InvalidHostError"
    /\ auth_outcome # "nocall"

\* C14: maxstorage_ultimate_init never raises; AuthenticationFailedError
\* gives the invalid-auth code, InvalidHostError the cannot-connect code,
\* every other exception the unknown-error code; it returns no error only
\* when get_data() returned and the unique id is the device's 'Ident'.
C14_FlowValidationNeverRaises ==
    /\ flow_result.kind # "raise"
    /\ flow_result.kind = "return" =>
         /\ flow_exc = "AuthenticationFailedError"
              => flow_result.error = "ERROR_AUTH_INVALID"
         /\ flow_exc = "InvalidHostError"
              => flow_result.error = "ERROR_CANNOT_CONNECT"
         /\ flow_exc \notin {"none", "AuthenticationFailedError", "InvalidHostError"}
              => flow_result.error = "ERROR_UNKNOWN"
         /\ flow_result.error = "None"
              => /\ flow_exc = "none"
                 /\ "Ident" \in DOMAIN flow_device_info
                 /\ flow_unique_id = flow_device_info["Ident"]

\* An exception outside the two classified ones ended the validation with
\* the unknown-error code.
C14_Witness ==
    /\ flow_result = [kind |-> "return", error |-> "ERROR_UNKNOWN"]
    /\ flow_exc = "KeyError"

\* C15: at most one get_data() call is in flight on the device's client at
\* any time: a scheduled tick never fires while the first refresh or an
\* earlier tick's poll is still in flight.
C15_OneFetchInFlight ==
    /\ in_flight <= 1
    /\ in_flight = 1 <=> pc \in {"fetch_login", "fetch_data"}
    /\ timer => pc = "idle"

\* A tick's poll is in flight, after the first refresh has ended.
C15_Witness ==
    /\ in_flight = 1
    /\ caller = "tick"
    /\ pc = "fetch_data"
    /\ entry_state = "loaded"

\* C16: when the platforms are set up, a relay entity is created for
\* exactly the indices of the snapshot's relay names that are non-empty,
\* and the entity for index i reports bool(values[i]) of the coordinator's
\* current snapshot whenever that snapshot has a value for every name.
C16_RelayEntitiesPaired ==
    [][/\ (FetchHandled /\ caller = "first_refresh" /\ entry_state' = "loaded")
            => relay_entities' = named_indices(relais_names(data'))
       /\ \A idx \in relay_entities' :
            (/\ data'.tag = "dict"
             /\ Len(relais_values(data')) = Len(relais_names(data'))
             /\ idx < Len(relais_names(data')))
              => /\ is_on(data', idx).kind = "return"
                 /\ is_on(data', idx).on = (relais_values(data')[idx + 1] = 1)]_vars

\* C17: once client.setup() has succeeded and the coordinator exists, its
\* device_info accessor returns a record (manufacturer "SolarMax", the MAC
\* connection exactly when mac is set) and does not raise.
C17_DeviceRecordAlwaysBuilt ==
    registry
      => /\ coordinator_device_info(device_info, mac).kind = "return"
         /\ coordinator_device_info(device_info, mac).value.manufacturer = "SolarMax"
         /\ coordinator_device_info(device_info, mac).value.identifiers
              = device_info["Ident"]
         /\ (coordinator_device_info(device_info, mac).value.connections # {})
              <=> mac # NoMac

\* C18: a poll cycle sends at most one login request and at most one data
\* request; when get_data() raised, the refresh fails once, with a message
\* that contains the message of what was raised; the cycle ends idle with
\* nothing in flight, and after a tick's poll the next tick is scheduled.
C18_NoSynchronousRetry ==
    [][PollEnds
         => /\ Cardinality({i \in 1..Len(call'.log) : call'.log[i] = "login_sent"}) <= 1
            /\ Cardinality({i \in 1..Len(call'.log) : call'.log[i] = "data_sent"}) <= 1
            /\ get_data_outcome'.kind = "raise"
                 => /\ ~last_update_success'
                    /\ \E i \in 1..Len(last_exception') :
                         last_exception'[i] = str(get_data_outcome'.exc)
            /\ get_data_outcome'.kind = "return" => last_exception' = <<>>
            /\ pc' = "idle"
            /\ in_flight' = 0
            /\ resp'.conn = "none"
            /\ caller = "tick" => timer']_vars

\* A tick's poll has failed on the data request after a fresh login; the
\* failure carries the client's message and the next tick is scheduled.
C18_Witness ==
    /\ pc = "idle"
    /\ timer
    /\ call.log = <<"login_sent", "login_done", "data_sent", "data_done">>
    /\ get_data_outcome.kind = "raise"
    /\ get_data_outcome.exc = "HTTPError"
    /\ last_exception = <<"Error communicating with API: ", str("HTTPError")>>

\* C20: is_token_valid() is true only if the client's most recent
\* authenticate() returned without error; after an authenticate() that
\* raised, whatever it raised, the session is not marked valid.
C20_ValidOnlyAfterSuccessfulLogin ==
    is_token_valid(last_auth_time, now) => auth_outcome = "ok"

\* C19: once the device answers every request correctly, a loaded entry
\* whose last poll failed and whose ticks keep firing eventually has a
\* successful poll: the failure flag is cleared and the snapshot is what
\* that poll's get_data() returned.
C19_EventualRecovery ==
    (/\ device_ok
     /\ entry_state = "loaded"
     /\ ~last_update_success
     /\ (timer \/ pc # "idle"))
      ~> (/\ last_update_success
          /\ get_data_outcome.kind = "return"
          /\ data = get_data_outcome.value
          /\ data.tag = "dict")

\* The device has recovered while the entry's last poll had failed on a
\* login, and the next tick is scheduled.
C19_Witness ==
    /\ device_ok
    /\ entry_state = "loaded"
    /\ ~last_update_success
    /\ timer
    /\ auth_outcome = "AuthenticationFailedError"

\* C21: whenever the registry holds the entry, the session of the client
\* stored there is open: async_unload_entry never leaves a registered
\* client that is closed.
C21_RegisteredClientIsOpen ==
    registry => session = "open"

\* C22: a client that was created and is not stored in the registry has
\* its session closed once the function that created it has ended: the
\* config flow's client after maxstorage_ultimate_init, whatever its
\* outcome, and the client of an async_setup_entry whose client.setup()
\* raised.
C22_UnstoredClientsAreClosed ==
    /\ (flow_pc = "idle" /\ flow_session # "none") => flow_session = "closed"
    /\ (pc = "idle" /\ ~registry /\ session # "none") => session = "closed"

\* C23: entities exist only in an entry whose first refresh succeeded, and
\* whenever an entity exists the coordinator's snapshot is a mapping, so
\* that no read of an entity meets None.
C23_EntitiesSeeMapping ==
    (sensor_entities # {} \/ relay_entities # {})
      => /\ entry_state \in {"loaded", "failed_unload"}
         /\ data.tag = "dict"
         /\ \A key \in sensor_entities : native_value(data, key).exc # "TypeError"
         /\ \A idx \in relay_entities : is_on(data, idx).exc # "AttributeError"

====
